---- MODULE Spec2Model ----
(***************************************************************************)
(* zodfest: forOpenAI (src/src/openai.ts) rewrites a Zod schema tree into  *)
(* the kinds OpenAI accepts; partial (src/src/partial.ts) makes the fields *)
(* of an object schema nullable with a null default.                       *)
(*                                                                         *)
(* A schema is a record holding the fields of its _def that the code       *)
(* reads: typeName, description and the children of its kind.  A caller    *)
(* builds a schema with Zod's constructors (Build), then calls forOpenAI   *)
(* or partial on it once.                                                  *)
(***************************************************************************)
EXTENDS Naturals, Sequences, FiniteSets, TLC

\* The number of constructor calls a caller makes on top of a leaf schema.
MaxSteps == 3

VARIABLES
    input,      \* the schema the caller holds
    steps,      \* constructor calls made so far
    called,     \* "none", "forOpenAI" or "partial"
    except,     \* the except argument of partial
    returned,   \* the return value of the call
    console     \* the console.warn messages, in the order they were emitted

vars == <<input, steps, called, except, returned, console>>

(***************************************************************************)
(* JavaScript values.  An optional value is a sequence of length 0         *)
(* (undefined) or 1, so that undefined and "" are different values.        *)
(***************************************************************************)
undefined == <<>>

\* if (schema.description): undefined and "" are both falsy.
Truthy(description) == description # undefined /\ description[1] # ""

(***************************************************************************)
(* Zod: the schemas the code constructs.  A factory called without params  *)
(* leaves the description undefined.                                       *)
(***************************************************************************)
z_string == [typeName |-> "ZodString", description |-> undefined]

z_number == [typeName |-> "ZodNumber", description |-> undefined]

z_boolean == [typeName |-> "ZodBoolean", description |-> undefined]

z_unknown == [typeName |-> "ZodUnknown", description |-> undefined]

z_enum(values) ==
    [typeName |-> "ZodEnum", description |-> undefined, values |-> values]

z_array(type) ==
    [typeName |-> "ZodArray", description |-> undefined, type |-> type]

\* shape is the sequence Object.entries(shape): <<key, schema>> pairs.
z_object(shape) ==
    [typeName |-> "ZodObject", description |-> undefined, shape |-> shape]

z_union(options) ==
    [typeName |-> "ZodUnion", description |-> undefined, options |-> options]

z_nullable(innerType) ==
    [typeName |-> "ZodNullable", description |-> undefined,
     innerType |-> innerType]

\* schema.describe(d): a copy of the schema with _def.description = d.
describe(schema, description) ==
    [schema EXCEPT !.description = <<description>>]

(***************************************************************************)
(* Zod: the schemas only a caller constructs.                              *)
(***************************************************************************)
z_date == [typeName |-> "ZodDate", description |-> undefined]

z_bigint == [typeName |-> "ZodBigInt", description |-> undefined]

z_literal(value) ==
    [typeName |-> "ZodLiteral", description |-> undefined, value |-> value]

z_optional(innerType) ==
    [typeName |-> "ZodOptional", description |-> undefined,
     innerType |-> innerType]

z_default(innerType, defaultValue) ==
    [typeName |-> "ZodDefault", description |-> undefined,
     innerType |-> innerType, defaultValue |-> defaultValue]

z_effects(schema) ==
    [typeName |-> "ZodEffects", description |-> undefined, schema |-> schema]

z_record(valueType) ==
    [typeName |-> "ZodRecord", description |-> undefined,
     valueType |-> valueType]

z_tuple(items) ==
    [typeName |-> "ZodTuple", description |-> undefined, items |-> items]

(***************************************************************************)
(* src/src/openai.ts.  A handler returns the simplified schema together    *)
(* with the console.warn messages emitted while it ran.                    *)
(***************************************************************************)
Return(schema, warnings) == [schema |-> schema, warnings |-> warnings]

RECURSIVE Concat(_)
\* The messages of a sequence of calls, in call order.
Concat(seqs) ==
    IF seqs = <<>> THEN <<>> ELSE Head(seqs) \o Concat(Tail(seqs))

RecordWarning ==
    <<"ZodRecord converted to empty object. You may need to define specific properties.">>

UnsupportedWarning(typeName) ==
    <<"Unsupported Zod type: ", typeName, ". Converting to string.">>

RECURSIVE handle(_)

preserveDescription(newSchema, originalSchema) ==
    IF Truthy(originalSchema.description)
    THEN describe(newSchema, originalSchema.description[1])
    ELSE newSchema

handleZodString(schema) ==
    LET result == z_string
    IN  Return(IF Truthy(schema.description)
               THEN describe(result, schema.description[1])
               ELSE result,
               <<>>)

\* Mutant: the description is not carried over.
handleZodEnum_NoDescription(schema) ==
    Return(z_enum(schema.values), <<>>)

handleZodEnum(schema) ==
    LET values == schema.values
        result == z_enum(values)
    IN  Return(IF Truthy(schema.description)
               THEN describe(result, schema.description[1])
               ELSE result,
               <<>>)

handleZodArray(schema) ==
    LET elementType == handle(schema.type)
        result == z_array(elementType.schema)
    IN  Return(IF Truthy(schema.description)
               THEN describe(result, schema.description[1])
               ELSE result,
               elementType.warnings)

handleZodObject(schema) ==
    LET shape == schema.shape
        handled == [i \in DOMAIN shape |-> handle(shape[i][2])]
        simplifiedShape ==
            [i \in DOMAIN shape |-> <<shape[i][1], handled[i].schema>>]
        result == z_object(simplifiedShape)
    IN  Return(IF Truthy(schema.description)
               THEN describe(result, schema.description[1])
               ELSE result,
               Concat([i \in DOMAIN shape |-> handled[i].warnings]))

handleZodUnion(schema) ==
    LET handled == [i \in DOMAIN schema.options |-> handle(schema.options[i])]
        options == [i \in DOMAIN handled |-> handled[i].schema]
        result == z_union(options)
    IN  Return(IF Truthy(schema.description)
               THEN describe(result, schema.description[1])
               ELSE result,
               Concat([i \in DOMAIN handled |-> handled[i].warnings]))

\* Mutant: an Optional around a Nullable adds no second wrapper.
handleZodOptional_Collapsing(schema) ==
    LET innerType == handle(schema.innerType)
        result ==
            IF innerType.schema.typeName = "ZodNullable"
            THEN innerType.schema
            ELSE z_nullable(innerType.schema)
    IN  Return(IF Truthy(schema.description)
               THEN describe(result, schema.description[1])
               ELSE result,
               innerType.warnings)

handleZodOptional(schema) ==
    LET innerType == handle(schema.innerType)
        result == z_nullable(innerType.schema)
    IN  Return(IF Truthy(schema.description)
               THEN describe(result, schema.description[1])
               ELSE result,
               innerType.warnings)

handleZodNullable(schema) ==
    LET innerType == handle(schema.innerType)
        result == z_nullable(innerType.schema)
    IN  Return(IF Truthy(schema.description)
               THEN describe(result, schema.description[1])
               ELSE result,
               innerType.warnings)

\* Mutant: the description of the wrapper is not put on the result.
handleZodDefault_InnerDescription(schema) ==
    LET innerType == handle(schema.innerType)
    IN  Return(innerType.schema, innerType.warnings)

handleZodDefault(schema) ==
    LET innerType == handle(schema.innerType)
    IN  Return(IF Truthy(schema.description)
               THEN describe(innerType.schema, schema.description[1])
               ELSE innerType.schema,
               innerType.warnings)

\* Mutant: the inner schema is returned without being simplified.
handleZodEffects_Shallow(schema) ==
    LET innerType == schema.schema
    IN  Return(IF Truthy(schema.description)
               THEN describe(innerType, schema.description[1])
               ELSE innerType,
               <<>>)

handleZodEffects(schema) ==
    LET innerType == handle(schema.schema)
    IN  Return(IF Truthy(schema.description)
               THEN describe(innerType.schema, schema.description[1])
               ELSE innerType.schema,
               innerType.warnings)

\* Mutant: the literal is returned as it is.
handleZodLiteral_Kept(schema) ==
    Return(schema, <<>>)

handleZodLiteral(schema) ==
    LET value == schema.value
        result == z_enum(<<value>>)
    IN  Return(IF Truthy(schema.description)
               THEN describe(result, schema.description[1])
               ELSE result,
               <<>>)

\* Mutant: the value type is simplified too.
handleZodRecord_Recursing(schema) ==
    LET valueType == handle(schema.valueType)
        result == z_object(<<>>)
    IN  Return(IF Truthy(schema.description)
               THEN describe(result, schema.description[1])
               ELSE result,
               <<RecordWarning>> \o valueType.warnings)

handleZodRecord(schema) ==
    LET result == z_object(<<>>)
    IN  Return(IF Truthy(schema.description)
               THEN describe(result, schema.description[1])
               ELSE result,
               <<RecordWarning>>)

\* Mutant: a tuple of one item gets a Union too.
handleZodTuple_AlwaysUnion(schema) ==
    LET items == schema.items
        handled == [i \in DOMAIN items |-> handle(items[i])]
        simplifiedItems == [i \in DOMAIN items |-> handled[i].schema]
        result ==
            IF Len(items) = 0 THEN z_array(z_unknown)
            ELSE z_array(z_union(simplifiedItems))
    IN  Return(IF Truthy(schema.description)
               THEN describe(result, schema.description[1])
               ELSE result,
               IF Len(items) = 0 THEN <<>>
               ELSE Concat([i \in DOMAIN items |-> handled[i].warnings]))

handleZodTuple(schema) ==
    LET items == schema.items
        handled == [i \in DOMAIN items |-> handle(items[i])]
        simplifiedItems == [i \in DOMAIN items |-> handled[i].schema]
        result ==
            IF Len(items) = 0 THEN z_array(z_unknown)
            ELSE IF Len(simplifiedItems) = 1 THEN z_array(simplifiedItems[1])
            ELSE z_array(z_union(simplifiedItems))
    IN  Return(IF Truthy(schema.description)
               THEN describe(result, schema.description[1])
               ELSE result,
               IF Len(items) = 0 THEN <<>>
               ELSE Concat([i \in DOMAIN items |-> handled[i].warnings]))

\* Mutant: a kind without a case is returned as it is.
handleUnsupported_PassThrough(schema) ==
    Return(schema, <<UnsupportedWarning(schema.typeName)>>)

\* The default branch of the switch.
handleUnsupported(schema) ==
    Return(preserveDescription(z_string, schema),
           <<UnsupportedWarning(schema.typeName)>>)

handle(schema) ==
    LET typeName == schema.typeName
    IN  CASE typeName = "ZodString" -> handleZodString(schema)
          [] typeName = "ZodNumber" ->
                Return(preserveDescription(z_number, schema), <<>>)
          [] typeName = "ZodBoolean" ->
                Return(preserveDescription(z_boolean, schema), <<>>)
          [] typeName = "ZodDate" ->
                Return(preserveDescription(z_string, schema), <<>>)
          [] typeName = "ZodEnum" -> handleZodEnum(schema)
          [] typeName = "ZodArray" -> handleZodArray(schema)
          [] typeName = "ZodObject" -> handleZodObject(schema)
          [] typeName = "ZodUnion" -> handleZodUnion(schema)
          [] typeName = "ZodOptional" -> handleZodOptional(schema)
          [] typeName = "ZodNullable" -> handleZodNullable(schema)
          [] typeName = "ZodDefault" -> handleZodDefault(schema)
          [] typeName = "ZodEffects" -> handleZodEffects(schema)
          [] typeName = "ZodLiteral" -> handleZodLiteral(schema)
          [] typeName = "ZodRecord" -> handleZodRecord(schema)
          [] typeName = "ZodTuple" -> handleZodTuple(schema)
          [] OTHER -> handleUnsupported(schema)

forOpenAI(schema) == handle(schema)

(***************************************************************************)
(* src/src/partial.ts.                                                     *)
(***************************************************************************)
\* field.nullable(): ZodNullable.create(this, this._def) keeps the
\* description of the schema it wraps.
nullable(field) ==
    [typeName |-> "ZodNullable", description |-> field.description,
     innerType |-> field]

\* schema.default(value): the ZodDefault keeps the description likewise.
default(schema, value) ==
    [typeName |-> "ZodDefault", description |-> schema.description,
     innerType |-> schema, defaultValue |-> value]

\* Mutant: except[key] !== false.
shouldKeepRequired_NotFalse(exceptArg, key) ==
    /\ exceptArg # undefined
    /\ (key \in DOMAIN exceptArg[1] => exceptArg[1][key] # FALSE)

\* except && except[key] === true
shouldKeepRequired(exceptArg, key) ==
    /\ exceptArg # undefined
    /\ key \in DOMAIN exceptArg[1]
    /\ exceptArg[1][key] = TRUE

partial(schema, exceptArg) ==
    LET shape == schema.shape
        newShape ==
            [i \in DOMAIN shape |->
                LET key == shape[i][1]
                    field == shape[i][2]
                IN  IF shouldKeepRequired(exceptArg, key)
                    THEN <<key, field>>
                    ELSE <<key, default(nullable(field), "null")>>]
    IN  z_object(newShape)

(***************************************************************************)
(* The caller.                                                             *)
(***************************************************************************)
Descriptions == {"", "D1", "D2"}

Leaves ==
    {z_string, z_number, z_boolean, z_date, z_unknown, z_bigint,
     z_enum(<<"inactive", "active">>), z_literal("active"),
     z_tuple(<<>>), z_object(<<>>)}

\* The schema a caller puts next to the one it holds.
Sibling == z_string

\* The schemas one constructor call makes of schema s.
Constructed(s) ==
    {describe(s, d) : d \in Descriptions}
    \cup {z_array(s), z_optional(s), z_nullable(s), z_default(s, "active"),
          z_effects(s), z_record(s),
          z_tuple(<<s>>), z_tuple(<<s, Sibling>>),
          z_union(<<s, Sibling>>),
          z_object(<< <<"a", s>> >>),
          z_object(<< <<"b", Sibling>>, <<"a", s>> >>)}

Keys == {"a", "b", "c"}

\* The except arguments: absent, or a mapping of some keys to booleans.
ExceptArgs ==
    {undefined}
    \cup {<<m>> : m \in UNION {[K -> BOOLEAN] : K \in SUBSET Keys}}

Init ==
    /\ input \in Leaves
    /\ steps = 0
    /\ called = "none"
    /\ except = undefined
    /\ returned = undefined
    /\ console = <<>>

Build ==
    /\ called = "none"
    /\ steps < MaxSteps
    /\ input' \in Constructed(input)
    /\ steps' = steps + 1
    /\ UNCHANGED <<called, except, returned, console>>

CallForOpenAI ==
    /\ called = "none"
    /\ LET r == forOpenAI(input)
       IN  /\ returned' = <<r.schema>>
           /\ console' = console \o r.warnings
    /\ called' = "forOpenAI"
    /\ UNCHANGED <<input, steps, except>>

CallPartial ==
    /\ called = "none"
    /\ input.typeName = "ZodObject"
    /\ \E e \in ExceptArgs :
          /\ except' = e
          /\ returned' = <<partial(input, e)>>
    /\ called' = "partial"
    /\ UNCHANGED <<input, steps, console>>

Next == Build \/ CallForOpenAI

Spec == Init /\ [][Next]_vars

\* The caller of partial.
NextPartial == Build \/ CallPartial

SpecPartial == Init /\ [][NextPartial]_vars

(***************************************************************************)
(* The vocabulary of the properties.                                       *)
(***************************************************************************)
\* SimplifiedZodType: the kinds forOpenAI declares it returns.
SimplifiedZodType ==
    {"ZodString", "ZodNumber", "ZodBoolean", "ZodEnum", "ZodArray",
     "ZodObject", "ZodUnion", "ZodNullable"}

\* The kinds the switch of handle has a case for.
HandledKinds ==
    SimplifiedZodType
    \cup {"ZodDate", "ZodOptional", "ZodDefault", "ZodEffects", "ZodLiteral",
          "ZodRecord", "ZodTuple"}

Range(seq) == {seq[i] : i \in DOMAIN seq}

\* The schemas a schema holds directly.
Children(n) ==
    CASE n.typeName = "ZodArray" -> {n.type}
      [] n.typeName = "ZodObject" -> {e[2] : e \in Range(n.shape)}
      [] n.typeName = "ZodUnion" -> Range(n.options)
      [] n.typeName \in {"ZodOptional", "ZodNullable", "ZodDefault"} ->
            {n.innerType}
      [] n.typeName = "ZodEffects" -> {n.schema}
      [] n.typeName = "ZodRecord" -> {n.valueType}
      [] n.typeName = "ZodTuple" -> Range(n.items)
      [] OTHER -> {}

RECURSIVE Nodes(_)
\* Every schema of the tree n, n included.
Nodes(n) == {n} \cup UNION {Nodes(c) : c \in Children(n)}

Simplified == called = "forOpenAI"

Relaxed == called = "partial"

out == returned[1]

\* The schema inside a ZodDefault or ZodEffects.
Unwrapped(n) == IF n.typeName = "ZodDefault" THEN n.innerType ELSE n.schema

(***************************************************************************)
(* C1  Totality: forOpenAI returns a schema for every input, the kind of   *)
(* its root is one of String, Number, Boolean, Enum, Array, Object, Union, *)
(* Nullable, and a kind the switch has no case for (ZodUnknown included)   *)
(* comes back as a String.                                                 *)
(***************************************************************************)
C1_Totality ==
    Simplified =>
        /\ returned # undefined
        /\ out.typeName \in SimplifiedZodType
        /\ input.typeName \notin HandledKinds => out.typeName = "ZodString"

C1_Witness ==
    /\ Simplified
    /\ input.typeName = "ZodUnknown"
    /\ out.typeName = "ZodString"

(***************************************************************************)
(* C2  Closed vocabulary: every schema at every depth of the result has a  *)
(* kind of SimplifiedZodType, for every input, the empty tuple included.   *)
(***************************************************************************)
C2_ClosedVocabulary ==
    Simplified => \A n \in Nodes(out) : n.typeName \in SimplifiedZodType

(***************************************************************************)
(* C3  Closure: no schema at any depth of the result is an Optional,       *)
(* Default, Effects, Date, Literal, Record or Tuple.                       *)
(***************************************************************************)
C3_Closure ==
    Simplified =>
        \A n \in Nodes(out) :
            n.typeName \notin {"ZodOptional", "ZodDefault", "ZodEffects",
                               "ZodDate", "ZodLiteral", "ZodRecord",
                               "ZodTuple"}

\* Default around Optional around Effects.
C3_Witness ==
    /\ Simplified
    /\ input.typeName = "ZodDefault"
    /\ input.innerType.typeName = "ZodOptional"
    /\ input.innerType.innerType.typeName = "ZodEffects"

(***************************************************************************)
(* C4  Description preservation: when the input carries a non-empty        *)
(* description D, whatever its kind, the root of the result carries D; the *)
(* description of a Default or Effects wrapper wins over that of the       *)
(* schema it wraps.                                                        *)
(***************************************************************************)
C4_DescriptionPreserved ==
    (Simplified /\ Truthy(input.description)) =>
        out.description = input.description

C4_Witness ==
    /\ Simplified
    /\ input.typeName = "ZodDefault"
    /\ Truthy(input.description)
    /\ Truthy(input.innerType.description)
    /\ input.innerType.description # input.description
    /\ out.description = input.description

(***************************************************************************)
(* C5  Unwrapping: for a Default or Effects whose own description is       *)
(* absent (or empty) the result is the simplified inner schema as it is;   *)
(* with a description the result is the simplified inner schema with only  *)
(* the root description replaced.  No default value and no wrapper is left *)
(* anywhere in the result.                                                 *)
(***************************************************************************)
C5_Unwrapping ==
    (Simplified /\ input.typeName \in {"ZodDefault", "ZodEffects"}) =>
        LET inner == forOpenAI(Unwrapped(input)).schema
        IN  /\ ~Truthy(input.description) => out = inner
            /\ Truthy(input.description) =>
                  out = [inner EXCEPT !.description = input.description]
            /\ \A n \in Nodes(out) :
                  /\ n.typeName \notin {"ZodDefault", "ZodEffects"}
                  /\ "defaultValue" \notin DOMAIN n

\* Default of Default of a described schema: the inner description stays.
C5_Witness ==
    /\ Simplified
    /\ input.typeName = "ZodDefault"
    /\ input.innerType.typeName \in {"ZodDefault", "ZodEffects"}
    /\ input.description = undefined
    /\ input.innerType.description = undefined
    /\ Truthy(out.description)

(***************************************************************************)
(* C6  Tuple rule: a Tuple becomes an Array; of ZodUnknown for no items,   *)
(* of the simplified item for one item, and for two or more items of a     *)
(* Union of the simplified items in tuple order, duplicates kept.          *)
(***************************************************************************)
C6_TupleRule ==
    (Simplified /\ input.typeName = "ZodTuple") =>
        LET items == input.items
        IN  /\ out.typeName = "ZodArray"
            /\ Len(items) = 0 => out.type = z_unknown
            /\ Len(items) = 1 => out.type = forOpenAI(items[1]).schema
            /\ Len(items) >= 2 =>
                  /\ out.type.typeName = "ZodUnion"
                  /\ Len(out.type.options) = Len(items)
                  /\ \A i \in DOMAIN items :
                        out.type.options[i] = forOpenAI(items[i]).schema

\* Tuple([String, String]) gives Array(Union([String, String])).
C6_Witness ==
    /\ Simplified
    /\ input.typeName = "ZodTuple"
    /\ input.items = <<z_string, z_string>>
    /\ out.type.options = <<z_string, z_string>>

(***************************************************************************)
(* C7  Record collapse: a Record becomes an Object without fields and the  *)
(* call emits exactly one warning, that of the Record; nothing of the      *)
(* value type is simplified, warned about or returned.                     *)
(***************************************************************************)
C7_RecordCollapse ==
    (Simplified /\ input.typeName = "ZodRecord") =>
        /\ out.typeName = "ZodObject"
        /\ out.shape = <<>>
        /\ console = <<RecordWarning>>

\* A Record of a Record, of a ZodUnknown or of a ZodBigInt.
C7_Witness ==
    /\ Simplified
    /\ input.typeName = "ZodRecord"
    /\ \E n \in Nodes(input.valueType) :
          n.typeName \in {"ZodRecord", "ZodUnknown", "ZodBigInt"}
    /\ Len(console) = 1

(***************************************************************************)
(* C8  Idempotence on restricted inputs.  As stated: an input whose        *)
(* schemas all have kinds of SimplifiedZodType comes back structurally     *)
(* equal, descriptions included, and without a warning.                    *)
(***************************************************************************)
RestrictedInput == \A n \in Nodes(input) : n.typeName \in SimplifiedZodType

C8_Idempotent ==
    (Simplified /\ RestrictedInput) => (out = input /\ console = <<>>)

\* C8 as amended: the same, for inputs none of whose descriptions is the
\* empty string.
C8_IdempotentNonEmpty ==
    (/\ Simplified
     /\ RestrictedInput
     /\ \A n \in Nodes(input) : n.description # <<"">>)
        => (out = input /\ console = <<>>)

\* A described Object holding a described Enum.
C8_Witness ==
    /\ Simplified
    /\ RestrictedInput
    /\ input.typeName = "ZodObject"
    /\ Truthy(input.description)
    /\ Len(input.shape) = 2
    /\ input.shape[2][2].typeName = "ZodEnum"
    /\ Truthy(input.shape[2][2].description)
    /\ out = input

(***************************************************************************)
(* C9  Shape Relaxer: partial(o, e) is an Object with the keys of o in the *)
(* same order; a field is the original schema iff e[k] is exactly true,    *)
(* and otherwise a Default of null around a Nullable around the original   *)
(* schema, nested objects wrapped as a whole.                              *)
(***************************************************************************)
C9_ShapeRelaxer ==
    Relaxed =>
        /\ out.typeName = "ZodObject"
        /\ Len(out.shape) = Len(input.shape)
        /\ \A i \in DOMAIN input.shape :
              LET key == input.shape[i][1]
                  original == input.shape[i][2]
                  field == out.shape[i][2]
                  exactlyTrue ==
                      \E m \in Range(except) :
                          key \in DOMAIN m /\ m[key] = TRUE
              IN  /\ out.shape[i][1] = key
                  /\ exactlyTrue => field = original
                  /\ ~exactlyTrue =>
                        /\ field.typeName = "ZodDefault"
                        /\ field.defaultValue = "null"
                        /\ field.innerType.typeName = "ZodNullable"
                        /\ field.innerType.innerType = original

\* {b: String, a: Object({...})} with except {b: true, c: true}.
C9_Witness ==
    /\ Relaxed
    /\ Len(input.shape) = 2
    /\ input.shape[2][2].typeName = "ZodObject"
    /\ Len(input.shape[2][2].shape) = 1
    /\ except = <<[b |-> TRUE, c |-> TRUE]>>
    /\ out.shape[1][2] = z_string
    /\ out.shape[2][2].typeName = "ZodDefault"

(***************************************************************************)
(* C10  Structural recursion: an Array, Object or Union comes back as the  *)
(* same kind over the simplified children, same keys, order and number;    *)
(* Optional and Nullable both come back as a Nullable of the simplified    *)
(* inner schema, so Optional(Nullable(i)) is Nullable(Nullable(..)).       *)
(***************************************************************************)
C10_StructuralRecursion ==
    Simplified =>
        /\ input.typeName = "ZodArray" =>
              /\ out.typeName = "ZodArray"
              /\ out.type = forOpenAI(input.type).schema
        /\ input.typeName = "ZodObject" =>
              /\ out.typeName = "ZodObject"
              /\ Len(out.shape) = Len(input.shape)
              /\ \A i \in DOMAIN input.shape :
                    /\ out.shape[i][1] = input.shape[i][1]
                    /\ out.shape[i][2] = forOpenAI(input.shape[i][2]).schema
        /\ input.typeName = "ZodUnion" =>
              /\ out.typeName = "ZodUnion"
              /\ Len(out.options) = Len(input.options)
              /\ \A i \in DOMAIN input.options :
                    out.options[i] = forOpenAI(input.options[i]).schema
        /\ input.typeName \in {"ZodOptional", "ZodNullable"} =>
              /\ out.typeName = "ZodNullable"
              /\ out.innerType = forOpenAI(input.innerType).schema
        /\ (/\ input.typeName = "ZodOptional"
            /\ input.innerType.typeName = "ZodNullable") =>
              /\ out.innerType.typeName = "ZodNullable"
              /\ out.innerType.innerType =
                    forOpenAI(input.innerType.innerType).schema

\* Optional(Nullable(i)) gives Nullable(Nullable(simplify(i))).
C10_Witness ==
    /\ Simplified
    /\ input.typeName = "ZodOptional"
    /\ input.innerType.typeName = "ZodNullable"
    /\ out.typeName = "ZodNullable"
    /\ out.innerType.typeName = "ZodNullable"
====
